---------------------------- MODULE Spec2Model ----------------------------
(***************************************************************************)
(* The account flow of src/app.py: the users collection with its two       *)
(* unique indexes, the register handler (POST /api/auth/register) and the  *)
(* login handler (POST /api/auth/login).                                   *)
(*                                                                         *)
(* A request is handled by one thread; the handlers share only the users   *)
(* collection.  register reads the collection (find_one) and later writes  *)
(* it (insert_one), so it is two steps that other requests may interleave  *)
(* with; login reads the collection once and is one step.                  *)
(*                                                                         *)
(* Request bodies are JSON objects whose fields are strings, null or       *)
(* absent.  The log call at line 127 is read as a statement of the try     *)
(* block it sits in.                                                       *)
(***************************************************************************)
EXTENDS Integers, Sequences, FiniteSets, TLC

\* Number of requests the service receives in a run.
NumReqs == 3

Reqs == 1..NumReqs

\* Python's None (a JSON null or an absent key read with data.get).
NONE == "<None>"
\* A key that the JSON body does not hold (matters for data.get with a default).
ABSENT == "<absent>"
Usernames == {"a", "b"}
Emails == {"x", "y"}
Falsy == {NONE, ""}
\* password, fullName and userType as the client may send them.
Details ==
    { [password |-> "p", fullName |-> "Jane", userType |-> "recruiter"],
      [password |-> "q", fullName |-> NONE,   userType |-> ABSENT],
      [password |-> "p", fullName |-> NONE,   userType |-> "admin"] }
Passwords == {d.password : d \in Details}

RegisterBody(u, e, d) ==
    [kind |-> "register", username |-> u, email |-> e, password |-> d.password,
     fullName |-> d.fullName, userType |-> d.userType]

ValidRegisterBodies ==
    { RegisterBody(u, e, d) : u \in Usernames, e \in Emails, d \in Details }

\* body with field k set to f.
Blank(body, k, f) == [body EXCEPT ![k] = f]

\* Bodies with username, email or password null or empty.
InvalidRegisterBodies ==
    { Blank(RegisterBody("a", "x", d), k, f) :
        d \in {dd \in Details : dd.userType = ABSENT},
        k \in {"username", "email", "password"}, f \in Falsy }

RegisterBodies == ValidRegisterBodies \cup InvalidRegisterBodies

LoginBody(u, p) == [kind |-> "login", username |-> u, password |-> p]

ValidLoginBodies == { LoginBody(u, p) : u \in Usernames, p \in Passwords }

\* Bodies with username or password null or empty.
InvalidLoginBodies ==
    { Blank(LoginBody("a", "p"), k, f) : k \in {"username", "password"}, f \in Falsy }

LoginBodies == ValidLoginBodies \cup InvalidLoginBodies

VARIABLES
    users,  \* users_collection: the account documents, in insertion order
    pc,     \* per request: "idle" (not received), "insert" (register between
            \* find_one and insert_one), "done" (response sent)
    req,    \* per request: the handler's kind and the body it read
    resp    \* per request: the response sent

vars == <<users, pc, req, resp>>

NoReq == [kind |-> "none"]
NoResp == [status |-> 0]

-----------------------------------------------------------------------------
\* Python truthiness of a field value: None and "" are false.
Truthy(v) == v \notin Falsy

\* str(ObjectId)
StrId(id) == ToString(id)

\* The identifier the store assigns to the next inserted document.
NextId(store) == Len(store) + 1

\* datetime.now(), counted in requests received so far.
Now == Cardinality({r \in Reqs : pc[r] # "idle"})

\* data.get('userType', 'job_seeker')
UserTypeOf(body) == IF body.userType = ABSENT THEN "job_seeker" ELSE body.userType

\* User(...).to_dict(), with the _id insert_one adds.
NewUser(body, id, now) ==
    [_id |-> id, username |-> body.username, email |-> body.email,
     password |-> body.password, fullName |-> body.fullName,
     userType |-> UserTypeOf(body), createdAt |-> now]

Min(S) == CHOOSE x \in S : \A y \in S : x <= y

\* Mutant: the existence query looks at the username only.
FindOneUsernameOnly(store, u, e) ==
    LET S == {i \in 1..Len(store) : store[i].username = u}
    IN  IF S = {} THEN 0 ELSE Min(S)

\* find_one({'$or': [{'username': u}, {'email': e}]}): the position of the
\* first matching document, 0 for None.
FindOneUsernameOrEmail(store, u, e) ==
    LET S == {i \in 1..Len(store) : store[i].username = u \/ store[i].email = e}
    IN  IF S = {} THEN 0 ELSE Min(S)

\* find_one({'username': u})
FindOneUsername(store, u) ==
    LET S == {i \in 1..Len(store) : store[i].username = u}
    IN  IF S = {} THEN 0 ELSE Min(S)

\* Mutant: the collection has no unique index.
NoUniqueIndex(store, doc) == FALSE

\* The unique indexes on username and on email.
UniqueIndexViolated(store, doc) ==
    \E i \in 1..Len(store) :
        store[i].username = doc.username \/ store[i].email = doc.email

\* Mutant: a write that replaces the document holding the username or email
\* instead of refusing the new one.
InsertOneReplacing(store, doc) ==
    IF UniqueIndexViolated(store, doc)
    THEN [i \in 1..Len(store) |->
            IF store[i].username = doc.username \/ store[i].email = doc.email
            THEN [doc EXCEPT !._id = store[i]._id] ELSE store[i]]
    ELSE Append(store, doc)

\* insert_one: the collection afterwards (unchanged when DuplicateKeyError
\* is raised).
InsertOne(store, doc) ==
    IF UniqueIndexViolated(store, doc) THEN store ELSE Append(store, doc)

-----------------------------------------------------------------------------
\* Responses.
ValidationResp ==
    [status |-> 400, error |-> "Username, email, and password are required"]
ConflictResp ==
    [status |-> 400, error |-> "Username or email already exists"]
\* str(err) of a DuplicateKeyError
DuplicateKeyResp ==
    [status |-> 500, error |-> "E11000 duplicate key error collection: ats_db.users"]
RegisteredResp(id) ==
    [status |-> 201, message |-> "User registered successfully", userId |-> StrId(id)]
LoginValidationResp ==
    [status |-> 400, error |-> "Username and password are required"]
AuthResp ==
    [status |-> 401, error |-> "Invalid username or password"]
\* Mutant: the whole stored document is returned, password included.
LoginOkRespWithPassword(user) ==
    [status |-> 200, message |-> "Login successful",
     user |-> [_id |-> StrId(user._id), username |-> user.username,
               email |-> user.email, password |-> user.password,
               fullName |-> user.fullName, userType |-> user.userType]]

LoginOkResp(user) ==
    [status |-> 200, message |-> "Login successful",
     user |-> [_id |-> StrId(user._id), username |-> user.username,
               email |-> user.email, fullName |-> user.fullName,
               userType |-> user.userType]]

\* Mutant: the existence query runs before the validation.
RegisterCheckRespExistenceFirst(store, body) ==
    IF FindOneUsernameOrEmail(store, body.username, body.email) # 0
    THEN ConflictResp
    ELSE IF ~(Truthy(body.username) /\ Truthy(body.email) /\ Truthy(body.password))
    THEN ValidationResp
    ELSE NoResp

\* register up to its find_one: the response it returns there, or NoResp
\* when it goes on to insert.
RegisterCheckResp(store, body) ==
    IF ~(Truthy(body.username) /\ Truthy(body.email) /\ Truthy(body.password))
    THEN ValidationResp
    ELSE IF FindOneUsernameOrEmail(store, body.username, body.email) # 0
    THEN ConflictResp
    ELSE NoResp

\* register from User(...) on: the response.
RegisterInsertResp(store, doc) ==
    IF UniqueIndexViolated(store, doc) THEN DuplicateKeyResp
    ELSE RegisteredResp(doc._id)

\* Mutant: an unknown username gets a message of its own.
LoginRespRevealsUnknownUser(store, body) ==
    IF ~Truthy(body.username) \/ ~Truthy(body.password)
    THEN LoginValidationResp
    ELSE LET i == FindOneUsername(store, body.username)
         IN  IF i = 0 THEN [status |-> 401, error |-> "User not found"]
             ELSE IF store[i].password # body.password THEN AuthResp
             ELSE LoginOkResp(store[i])

\* Mutant: the password is not compared.
LoginRespNoPasswordCheck(store, body) ==
    IF ~Truthy(body.username) \/ ~Truthy(body.password)
    THEN LoginValidationResp
    ELSE LET i == FindOneUsername(store, body.username)
         IN  IF i = 0 THEN AuthResp ELSE LoginOkResp(store[i])

\* login: the response.
LoginResp(store, body) ==
    IF ~Truthy(body.username) \/ ~Truthy(body.password)
    THEN LoginValidationResp
    ELSE LET i == FindOneUsername(store, body.username)
         IN  IF i = 0 THEN AuthResp
             ELSE IF store[i].password # body.password THEN AuthResp
             ELSE LoginOkResp(store[i])

-----------------------------------------------------------------------------
Init ==
    /\ users = <<>>
    /\ pc = [r \in Reqs |-> "idle"]
    /\ req = [r \in Reqs |-> NoReq]
    /\ resp = [r \in Reqs |-> NoResp]

\* Requests are numbered in the order their handlers start.
Received(r) == pc[r] = "idle" /\ (IF r = 1 THEN TRUE ELSE pc[r - 1] # "idle")

\* register, lines 119-138: read the body, validate, look for an existing user.
RegisterCheck(r) ==
    /\ Received(r)
    /\ \E body \in RegisterBodies :
        LET out == RegisterCheckResp(users, body)
        IN  /\ req' = [req EXCEPT ![r] = body]
            /\ resp' = [resp EXCEPT ![r] = out]
            /\ pc' = [pc EXCEPT ![r] = IF out = NoResp THEN "insert" ELSE "done"]
    /\ UNCHANGED users

\* register, lines 140-154: build the user, insert it, answer.
RegisterInsert(r) ==
    /\ pc[r] = "insert"
    /\ LET doc == NewUser(req[r], NextId(users), Now)
       IN  /\ users' = InsertOne(users, doc)
           /\ resp' = [resp EXCEPT ![r] = RegisterInsertResp(users, doc)]
    /\ pc' = [pc EXCEPT ![r] = "done"]
    /\ UNCHANGED req

\* login, lines 162-199.
Login(r) ==
    /\ Received(r)
    /\ \E body \in LoginBodies :
        /\ req' = [req EXCEPT ![r] = body]
        /\ resp' = [resp EXCEPT ![r] = LoginResp(users, body)]
    /\ pc' = [pc EXCEPT ![r] = "done"]
    /\ UNCHANGED users

Next == \E r \in Reqs : RegisterCheck(r) \/ RegisterInsert(r) \/ Login(r)

Spec == Init /\ [][Next]_vars

-----------------------------------------------------------------------------
\* Vocabulary of the properties.

IsRegister(r) == req[r].kind = "register"
IsLogin(r) == req[r].kind = "login"

\* Request r is a Register whose username, email and password are non-empty.
IsValidRegister(r) ==
    /\ IsRegister(r)
    /\ Truthy(req[r].username) /\ Truthy(req[r].email) /\ Truthy(req[r].password)

\* This step is request r's register running up to its existence check.
CheckStep(r) == pc[r] = "idle" /\ pc'[r] # "idle" /\ req'[r].kind = "register"
\* This step is request r's register inserting and answering.
InsertStep(r) == pc[r] = "insert" /\ pc'[r] = "done"
\* This step is request r's login.
LoginStep(r) == pc[r] = "idle" /\ pc'[r] = "done" /\ req'[r].kind = "login"

\* Account i was stored before request r's handler started: createdAt counts
\* the requests received when the account was inserted, and r is the r-th.
StoredBefore(i, r) == users[i].createdAt < r

Accounts == 1..Len(users)

\* C1: in every reachable state no two stored accounts share a username and
\* no two share an email.
C1_UniqueUsernameAndEmail ==
    \A i, j \in Accounts :
        i # j => /\ users[i].username # users[j].username
                 /\ users[i].email # users[j].email

\* Two accounts are stored and a racing insert was refused by the index.
C1_Witness ==
    /\ Len(users) = 2
    /\ \E r \in Reqs : resp[r] = DuplicateKeyResp

\* C2: the Register calls with one username, on a store that started without
\* it and with emails nobody else registers, end in exactly one success and
\* ConflictError for all the others, whatever the interleaving.
C2_OneSuccessOthersConflict ==
    \A u \in Usernames :
        LET G == {r \in Reqs : IsValidRegister(r) /\ req[r].username = u}
            Others == {r \in Reqs \ G : IsValidRegister(r)}
        IN  ( /\ Cardinality(G) >= 2
              /\ \A r \in G : pc[r] = "done"
              /\ \A r \in G, o \in Others : req[o].email # req[r].email )
            => /\ Cardinality({r \in G : resp[r].status = 201}) = 1
               /\ \A r \in G : resp[r].status # 201 => resp[r] = ConflictResp

\* C3: a Register that passed its existence check and whose insert the unique
\* index rejects answers 400 "Username or email already exists".
C3_RejectedInsertIsConflict ==
    [][\A r \in Reqs :
         (InsertStep(r) /\ UniqueIndexViolated(users, req[r]))
         => resp'[r] = ConflictResp]_vars

\* C4: a Register with username, email or password missing or empty answers
\* ValidationError and leaves the store as it was, whatever the store holds.
C4_MissingFieldIsValidationError ==
    [][\A r \in Reqs :
         ( /\ CheckStep(r)
           /\ ~( /\ Truthy(req'[r].username)
                 /\ Truthy(req'[r].email)
                 /\ Truthy(req'[r].password) ) )
         => /\ resp'[r] = ValidationResp
            /\ pc'[r] = "done"
            /\ users' = users]_vars

\* A Register without a password, for a username and an email that were
\* already stored when it arrived, was answered ValidationError.
C4_Witness ==
    \E r \in Reqs :
        /\ IsRegister(r) /\ pc[r] = "done"
        /\ ~Truthy(req[r].password)
        /\ \E i \in Accounts :
            /\ users[i].username = req[r].username
            /\ users[i].email = req[r].email
            /\ StoredBefore(i, r)
        /\ resp[r] = ValidationResp

\* The account type a Register body asks for (job_seeker when it names none).
RegisteredType(r) == IF req[r].userType = ABSENT THEN "job_seeker" ELSE req[r].userType

\* C5: a valid Register whose username and email are not in the store
\* succeeds, and every later Login with its username and password succeeds
\* and returns the registered username, email, fullName and account type,
\* and no password.
C5_RegisterThenLoginRoundTrip ==
    [][/\ \A r \in Reqs :
            ( /\ InsertStep(r)
              /\ \A i \in Accounts : /\ users[i].username # req[r].username
                                     /\ users[i].email # req[r].email )
            => resp'[r].status = 201
       /\ \A r, l \in Reqs :
            ( /\ IsValidRegister(r) /\ resp[r].status = 201
              /\ LoginStep(l)
              /\ req'[l].username = req[r].username
              /\ req'[l].password = req[r].password )
            => resp'[l] =
                 [status |-> 200, message |-> "Login successful",
                  user |-> [_id |-> resp[r].userId,
                            username |-> req[r].username,
                            email |-> req[r].email,
                            fullName |-> req[r].fullName,
                            userType |-> RegisteredType(r)]]]_vars

\* Jane registered as a recruiter, another request was received, and then a
\* Login with her username and password succeeded.
C5_Witness ==
    \E r, m, l \in Reqs :
        /\ r < m /\ m < l
        /\ IsValidRegister(r) /\ resp[r].status = 201
        /\ req[r].fullName = "Jane" /\ req[r].userType = "recruiter"
        /\ pc[m] = "done"
        /\ IsLogin(l) /\ pc[l] = "done"
        /\ req[l].username = req[r].username
        /\ req[l].password = req[r].password
        /\ resp[l].status = 200

\* C6: a Register whose username is that of a stored account with another
\* email, or whose email is that of a stored account with another username,
\* answers ConflictError and leaves the store as it was.
C6_DuplicateIsConflict ==
    [][\A r \in Reqs :
         ( /\ CheckStep(r)
           /\ Truthy(req'[r].username) /\ Truthy(req'[r].email)
           /\ Truthy(req'[r].password)
           /\ \E i \in Accounts :
                \/ /\ users[i].username = req'[r].username
                   /\ users[i].email # req'[r].email
                \/ /\ users[i].email = req'[r].email
                   /\ users[i].username # req'[r].username )
         => /\ resp'[r] = ConflictResp
            /\ pc'[r] = "done"
            /\ users' = users]_vars

\* After one account was stored, a Register with its username and a new
\* email and a Register with its email and a new username were both refused,
\* with no other request in progress.
C6_Witness ==
    /\ Len(users) = 1
    /\ \A r \in Reqs : pc[r] = "done"
    /\ \E r1, r2 \in Reqs :
        /\ IsValidRegister(r1) /\ IsValidRegister(r2)
        /\ StoredBefore(1, r1) /\ StoredBefore(1, r2)
        /\ req[r1].username = users[1].username /\ req[r1].email # users[1].email
        /\ req[r2].email = users[1].email /\ req[r2].username # users[1].username
        /\ resp[r1] = ConflictResp /\ resp[r2] = ConflictResp

\* Request l is a Login with non-empty username and password.
IsValidLogin(l) ==
    IsLogin(l) /\ Truthy(req[l].username) /\ Truthy(req[l].password)

\* C7: all failed Logins with non-empty username and password got the same
\* response, 401 "Invalid username or password", whether or not the account
\* existed.
C7_FailedLoginsIndistinguishable ==
    \A l1, l2 \in Reqs :
        ( /\ IsValidLogin(l1) /\ resp[l1].status # 200
          /\ IsValidLogin(l2) /\ resp[l2].status # 200 )
        => /\ resp[l1] = resp[l2]
           /\ resp[l1] = AuthResp

\* One Login failed for a username that was never stored, another for a
\* username that was stored before it, with another password.
C7_Witness ==
    \E l1, l2 \in Reqs :
        /\ IsValidLogin(l1) /\ resp[l1].status = 401
        /\ \A i \in Accounts : users[i].username # req[l1].username
        /\ IsValidLogin(l2) /\ resp[l2].status = 401
        /\ \E i \in Accounts :
            /\ users[i].username = req[l2].username
            /\ users[i].password # req[l2].password
            /\ StoredBefore(i, l2)

\* C8: a Login with non-empty username and password succeeds exactly when
\* the store holds an account with that username and exactly that password,
\* and answers AuthenticationError otherwise.
C8_LoginSucceedsIffPasswordMatches ==
    [][\A l \in Reqs :
         ( /\ LoginStep(l)
           /\ Truthy(req'[l].username) /\ Truthy(req'[l].password) )
         => IF \E i \in Accounts : /\ users[i].username = req'[l].username
                                   /\ users[i].password = req'[l].password
            THEN resp'[l].status = 200
            ELSE resp'[l] = AuthResp]_vars

\* One Login succeeded, and one for the same stored account with another
\* password failed.
C8_Witness ==
    \E l1, l2 \in Reqs :
        /\ IsValidLogin(l1) /\ resp[l1].status = 200
        /\ IsValidLogin(l2) /\ resp[l2].status = 401
        /\ req[l2].username = req[l1].username
        /\ req[l2].password # req[l1].password
        /\ \E i \in Accounts : users[i].username = req[l2].username /\ StoredBefore(i, l2)

\* C9: every stored account's type is job_seeker or recruiter, and it is
\* job_seeker when the Register that stored it named none.
C9_AccountTypeInEnum ==
    /\ \A i \in Accounts : users[i].userType \in {"job_seeker", "recruiter"}
    /\ \A r \in Reqs :
        (IsValidRegister(r) /\ resp[r].status = 201 /\ req[r].userType = ABSENT)
        => \E i \in Accounts : /\ StrId(users[i]._id) = resp[r].userId
                               /\ users[i].userType = "job_seeker"

\* C10: a step leaves every stored account as it was; Login leaves the store
\* as it was; the store changes only by a successful Register, which adds
\* exactly one account.
C10_StoreOnlyGrowsByRegister ==
    [][/\ Len(users') >= Len(users)
       /\ \A i \in Accounts : users'[i] = users[i]
       /\ \A l \in Reqs : LoginStep(l) => users' = users
       /\ users' # users => \E r \in Reqs : InsertStep(r) /\ resp'[r].status = 201
       /\ \A r \in Reqs :
            (InsertStep(r) /\ resp'[r].status = 201) => Len(users') = Len(users) + 1
       /\ \A r \in Reqs :
            ((CheckStep(r) \/ InsertStep(r)) /\ resp'[r].status # 201)
            => users' = users]_vars

\* With one account stored, a later Register was refused and a later Login
\* was answered, and the account is still the only one.
C10_Witness ==
    /\ Len(users) = 1
    /\ \E r, l \in Reqs :
        /\ IsValidRegister(r) /\ resp[r] = ConflictResp /\ StoredBefore(1, r)
        /\ IsLogin(l) /\ pc[l] = "done" /\ StoredBefore(1, l)

=============================================================================
